---- MODULE Spec2Model ----
(***************************************************************************)
(* Model of the take-off calculator's PDFViewer component                  *)
(* (src/unnamed/part_002): the measurement store, the undo/redo stacks,    *)
(* the calibration factor and the drag session, driven by the component's  *)
(* event handlers.  React state is one variable per useState cell; every   *)
(* handler is one action (discrete events are rendered synchronously, so a *)
(* handler always sees the state left by the previous one).                *)
(*                                                                         *)
(* Units: screen offsets (clientX - rect.left) are whole CSS pixels; the   *)
(* zoom level `scale` is kept in quarters (5 stands for 1.25), so that     *)
(* offset / scale = (4 * offset) \div scale is exact on the inputs used.   *)
(* Calibration factors are kept in ten-thousandths (1661 stands for        *)
(* 0.1661).  A nullable value is <<>> (null/undefined) or <<v>>.           *)
(***************************************************************************)
EXTENDS Integers, Sequences, FiniteSets, TLC

----------------------------------------------------------------------------
(* Bounds of the model *)

\* the store holds at most this many measurements (commits beyond are not taken)
MaxMeasurements == 2

\* the tighter cap on the store in Spec, where every page takes presses
MaxStoreWide == 1

\* Date.now() ranges over 0..MaxClock
MaxClock == 1

\* documents have 1..MaxPages pages
MaxPages == 2

----------------------------------------------------------------------------
(* Nullable values *)

None == <<>>

Some(v) == <<v>>

IsSome(o) == o # None

Val(o) == o[1]

----------------------------------------------------------------------------
(* Program constants and input domains *)

\* drawingCalibrations: scale identifier -> factor (in 1/10000)
CalibrationIds == {"125", "100", "75"}

drawingCalibrations == [id \in CalibrationIds |->
                          CASE id = "125" -> 1661
                            [] id = "100" -> 1250
                            [] id = "75"  -> 933]

defaultCalibrationValue == "125"

\* useState(1.25), in quarters
InitialScale == 5

\* zoom levels the control menu can set, in quarters (1.25 and 2.5)
ZoomLevels == {5, 10}

\* pointer offsets inside a page's bounding box, <<clientX - rect.left, clientY - rect.top>>:
\* where a press lands, and where a move lands (back on the press position, or away)
PressOffsets == {<<0, 0>>}

MoveOffsets == {<<0, 0>>, <<15, 20>>}

\* the file state: the bundled default path, an uploaded File, or null
DefaultFile == "default"

UploadedFile == "upload"

NoFile == "null"

----------------------------------------------------------------------------
VARIABLES
  file,          \* useState<PDFFile>
  numPages,      \* useState<number>(): None until the document has loaded
  scale,         \* zoom level
  scaleFactor,   \* calibration factor, None when uncalibrated
  measurements,  \* the measurement store
  history,       \* undo stack of store snapshots
  redoStack,     \* redo stack of store snapshots
  isDragging,
  dragStart,
  dragEnd,
  dragPage,
  now,           \* the latest reading of Date.now()
  \* history variables, read by no handler
  lastOp,        \* the handler that ran last and the branch it took
  trail,         \* the commit / undo / redo run in progress since the last commit
  undone,        \* snapshots queued by undo, in the order the undos were performed
  gesture,       \* the recorded drag: the pageNumber of its press (0: none), whether
                 \* a move from another page was recorded since, the point of the
                 \* press and of the latest move since
  selected       \* a scale was selected since construction or the last file change

progVars == <<file, numPages, scale, scaleFactor, measurements, history, redoStack,
              isDragging, dragStart, dragEnd, dragPage>>

dragVars == <<isDragging, dragStart, dragEnd, dragPage>>

storeVars == <<measurements, history, redoStack>>

vars == <<file, numPages, scale, scaleFactor, measurements, history, redoStack,
          isDragging, dragStart, dragEnd, dragPage, now,
          lastOp, trail, undone, gesture, selected>>

----------------------------------------------------------------------------
(* Pure helpers *)

\* (clientX - rect.left) / scale
Normalize(offset, zoom) == (4 * offset) \div zoom

\* Math.sqrt on the non-negative integers (exact on perfect squares)
Sqrt(n) == CHOOSE r \in 0..n : r * r <= n /\ (r + 1) * (r + 1) > n

PixelDistance(p1, p2) ==
  LET dx == p2.x - p1.x
      dy == p2.y - p1.y
  IN  Sqrt(dx * dx + dy * dy)

\* mutant of NewMeasurement: the distance is stored already calibrated
NewMeasurementCalibrated(id, p1, p2) ==
  [id |-> id, points |-> <<p1, p2>>,
   pixelDistance |-> (PixelDistance(p1, p2)
                        * (IF IsSome(scaleFactor) THEN Val(scaleFactor) ELSE 10000))
                     \div 10000]

NewMeasurement(id, p1, p2) ==
  [id |-> id, points |-> <<p1, p2>>, pixelDistance |-> PixelDistance(p1, p2)]

\* the page <div>s that exist and carry the mouse handlers: <Document> renders its
\* children under `file &&`, once the file has loaded (numPages is then set)
RenderedPages == IF file # NoFile /\ IsSome(numPages) THEN 1..Val(numPages) ELSE {}

\* the handler that ran and the branch it took; `press` is the gesture a press
\* began or a commit ended, `before` the sizes <<store, undo stack, redo stack,
\* calibrated (1) or not (0)>> the handler found when it discards any of them
Op(name, press, before) == [op |-> name, press |-> press, before |-> before]

NoGesture == [page |-> 0, crossed |-> FALSE, start |-> None, last |-> None]

\* the point an event at `offset` inside the <div> of `page` stands for at `zoom`
PointAt(offset, zoom, page) ==
  [x |-> Normalize(offset[1], zoom), y |-> Normalize(offset[2], zoom), page |-> page]

Nothing == <<0, 0, 0, 0>>

Sizes == <<Len(measurements), Len(history), Len(redoStack),
           IF IsSome(scaleFactor) THEN 1 ELSE 0>>

NoTrail == [stage |-> 0, pre |-> <<>>, post |-> <<>>]

----------------------------------------------------------------------------
Init ==
  /\ file = DefaultFile
  /\ numPages = None
  /\ scale = InitialScale
  /\ scaleFactor = Some(drawingCalibrations[defaultCalibrationValue])
  /\ measurements = <<>>
  /\ history = <<>>
  /\ redoStack = <<>>
  /\ isDragging = FALSE
  /\ dragStart = None
  /\ dragEnd = None
  /\ dragPage = None
  /\ now = 0
  /\ lastOp = Op("init", NoGesture, Nothing)
  /\ trail = NoTrail
  /\ undone = <<>>
  /\ gesture = NoGesture
  /\ selected = FALSE

----------------------------------------------------------------------------
(* onFileChange: a file is chosen (or the choice is emptied) *)

\* mutants of FileChangeResult: the redo stack, or the calibration, survives the change
FileChangeResultKeepsRedo(nextFile) ==
  [file |-> nextFile, numPages |-> None, measurements |-> <<>>,
   scaleFactor |-> None, history |-> <<>>, redoStack |-> redoStack]

FileChangeResultKeepsScale(nextFile) ==
  [file |-> nextFile, numPages |-> None, measurements |-> <<>>,
   scaleFactor |-> scaleFactor, history |-> <<>>, redoStack |-> <<>>]

FileChangeResult(nextFile) ==
  [file |-> nextFile, numPages |-> None, measurements |-> <<>>,
   scaleFactor |-> None, history |-> <<>>, redoStack |-> <<>>]

OnFileChange(nextFile) ==
  LET res == FileChangeResult(nextFile) IN
  /\ file' = res.file
  /\ numPages' = res.numPages
  /\ measurements' = res.measurements
  /\ scaleFactor' = res.scaleFactor
  /\ history' = res.history
  /\ redoStack' = res.redoStack
  /\ UNCHANGED <<scale, isDragging, dragStart, dragEnd, dragPage, now, gesture>>
  /\ lastOp' = Op("fileChange", NoGesture, Sizes)
  /\ trail' = NoTrail
  /\ undone' = <<>>
  /\ selected' = FALSE

(* onDocumentLoadSuccess: the document chosen last has loaded *)
OnDocumentLoadSuccess(nextNumPages) ==
  /\ file # NoFile
  /\ numPages = None
  /\ numPages' = Some(nextNumPages)
  /\ UNCHANGED <<file, scale, scaleFactor, measurements, history, redoStack,
                 isDragging, dragStart, dragEnd, dragPage, now,
                 undone, gesture, selected>>
  /\ lastOp' = Op("loadSuccess", NoGesture, Nothing)
  /\ trail' = NoTrail

----------------------------------------------------------------------------
(* handleMouseDown *)

\* mutant of MouseDownResult: setDragEnd(null) is missing
MouseDownResultKeepsEnd(offset, pageNumber, zoom) ==
  [dragStart |-> Some([x |-> Normalize(offset[1], zoom),
                       y |-> Normalize(offset[2], zoom),
                       page |-> pageNumber]),
   dragEnd |-> dragEnd,
   dragPage |-> Some(pageNumber),
   isDragging |-> TRUE]

MouseDownResult(offset, pageNumber, zoom) ==
  [dragStart |-> Some([x |-> Normalize(offset[1], zoom),
                       y |-> Normalize(offset[2], zoom),
                       page |-> pageNumber]),
   dragEnd |-> None,
   dragPage |-> Some(pageNumber),
   isDragging |-> TRUE]

HandleMouseDown(offset, pageNumber) ==
  LET res == MouseDownResult(offset, pageNumber, scale) IN
  /\ pageNumber \in RenderedPages
  /\ dragStart' = res.dragStart
  /\ dragEnd' = res.dragEnd
  /\ dragPage' = res.dragPage
  /\ isDragging' = res.isDragging
  /\ UNCHANGED <<file, numPages, scale, scaleFactor, measurements, history,
                 redoStack, now, undone, selected>>
  /\ gesture' = [page |-> pageNumber, crossed |-> FALSE,
                  start |-> Some(PointAt(offset, scale, pageNumber)), last |-> None]
  /\ lastOp' = Op(IF isDragging THEN "mouseDownDuringDrag" ELSE "mouseDown",
                  gesture', Nothing)
  /\ trail' = NoTrail

----------------------------------------------------------------------------
(* handleMouseMove: overPage is the page whose <div> receives the event; the
   handler takes no page argument and reads only that <div>'s bounding box *)

\* mutant of MouseMoveIgnored: a move is recorded whether or not a drag is active
MouseMoveIgnoredOnlyWithoutStart == dragStart = None \/ dragPage = None

MouseMoveIgnored == ~isDragging \/ dragStart = None \/ dragPage = None

\* mutant of MouseMoveEnd: the end point takes the page the pointer is over
MouseMoveEndOverPage(offset, overPage, zoom, startPage) ==
  Some([x |-> Normalize(offset[1], zoom),
        y |-> Normalize(offset[2], zoom),
        page |-> overPage])

MouseMoveEnd(offset, overPage, zoom, startPage) ==
  Some([x |-> Normalize(offset[1], zoom),
        y |-> Normalize(offset[2], zoom),
        page |-> startPage])

HandleMouseMove(offset, overPage) ==
  /\ overPage \in RenderedPages
  /\ IF MouseMoveIgnored
       THEN /\ dragEnd' = dragEnd
            /\ gesture' = gesture
            /\ lastOp' = Op("mouseMoveIgnored", NoGesture, Nothing)
       ELSE /\ dragEnd' = MouseMoveEnd(offset, overPage, scale, Val(dragPage))
            /\ lastOp' = Op(IF overPage = Val(dragPage) THEN "mouseMove"
                                                        ELSE "mouseMoveOtherPage",
                            NoGesture, Nothing)
            /\ gesture' = [gesture EXCEPT
                              !.crossed = @ \/ overPage # gesture.page,
                              !.last = Some(PointAt(offset, scale, gesture.page))]
  /\ UNCHANGED <<file, numPages, scale, scaleFactor, measurements, history,
                 redoStack, isDragging, dragStart, dragPage, now,
                 undone, selected>>
  /\ trail' = NoTrail

----------------------------------------------------------------------------
(* handleMouseUp; t is the reading Date.now() returns, never below an earlier one *)

\* mutant of MouseUpAborts: a drag that ends where it started is discarded
MouseUpAbortsZeroLength ==
  ~isDragging \/ dragStart = None \/ dragEnd = None \/ dragEnd = dragStart

MouseUpAborts == ~isDragging \/ dragStart = None \/ dragEnd = None

\* mutant of AbortResult: the snapshot is pushed before the early return
AbortResultPushesHistory(m, h, r, start, end, page) ==
  [measurements |-> m, history |-> Append(h, m), redoStack |-> r,
   dragStart |-> start, dragEnd |-> end, dragPage |-> page, isDragging |-> FALSE]

\* the early return: only isDragging is written
AbortResult(m, h, r, start, end, page) ==
  [measurements |-> m, history |-> h, redoStack |-> r,
   dragStart |-> start, dragEnd |-> end, dragPage |-> page, isDragging |-> FALSE]

\* mutant of CommitResult: setRedoStack([]) is missing
CommitResultKeepsRedo(m, h, r, p1, p2, id) ==
  [measurements |-> Append(m, NewMeasurement(id, p1, p2)),
   history |-> Append(h, m),
   redoStack |-> r,
   dragStart |-> None, dragEnd |-> None, dragPage |-> None, isDragging |-> FALSE]

\* mutant of CommitResult: the snapshot pushed is the store after the append
CommitResultPushesAfter(m, h, r, p1, p2, id) ==
  [measurements |-> Append(m, NewMeasurement(id, p1, p2)),
   history |-> Append(h, Append(m, NewMeasurement(id, p1, p2))),
   redoStack |-> <<>>,
   dragStart |-> None, dragEnd |-> None, dragPage |-> None, isDragging |-> FALSE]

CommitResult(m, h, r, p1, p2, id) ==
  [measurements |-> Append(m, NewMeasurement(id, p1, p2)),
   history |-> Append(h, m),
   redoStack |-> <<>>,
   dragStart |-> None, dragEnd |-> None, dragPage |-> None, isDragging |-> FALSE]

HandleMouseUp(t, cap) ==
  LET res == IF MouseUpAborts
               THEN AbortResult(measurements, history, redoStack,
                                dragStart, dragEnd, dragPage)
               ELSE CommitResult(measurements, history, redoStack,
                                 Val(dragStart), Val(dragEnd), t)
  IN
  /\ RenderedPages # {}
  /\ t >= now
  /\ MouseUpAborts \/ Len(measurements) < cap
  /\ measurements' = res.measurements
  /\ history' = res.history
  /\ redoStack' = res.redoStack
  /\ dragStart' = res.dragStart
  /\ dragEnd' = res.dragEnd
  /\ dragPage' = res.dragPage
  /\ isDragging' = res.isDragging
  /\ UNCHANGED <<file, numPages, scale, scaleFactor, selected>>
  /\ IF MouseUpAborts
       THEN /\ lastOp' = Op("mouseUpAbort", NoGesture, Nothing)
            /\ trail' = NoTrail
            /\ UNCHANGED <<now, undone, gesture>>
       ELSE /\ lastOp' = Op("commit", gesture, <<0, 0, Len(redoStack), 0>>)
            /\ trail' = [stage |-> 1, pre |-> measurements, post |-> res.measurements]
            /\ now' = t
            /\ undone' = <<>>
            /\ gesture' = NoGesture

----------------------------------------------------------------------------
(* handleUndo, handleRedo: buttons of the control menu, rendered while a file is set *)

\* mutants of UndoResult: the first snapshot is installed instead of the last; the
\* undone store is queued behind the redo stack; an empty undo clears the redo stack
UndoResultFirstSnapshot(m, h, r) ==
  IF Len(h) = 0
    THEN [measurements |-> m, history |-> h, redoStack |-> r]
    ELSE [measurements |-> h[1],
          history |-> SubSeq(h, 1, Len(h) - 1),
          redoStack |-> <<m>> \o r]

UndoResultQueuesBehind(m, h, r) ==
  IF Len(h) = 0
    THEN [measurements |-> m, history |-> h, redoStack |-> r]
    ELSE [measurements |-> h[Len(h)],
          history |-> SubSeq(h, 1, Len(h) - 1),
          redoStack |-> r \o <<m>>]

UndoResultEmptyClearsRedo(m, h, r) ==
  IF Len(h) = 0
    THEN [measurements |-> m, history |-> h, redoStack |-> <<>>]
    ELSE [measurements |-> h[Len(h)],
          history |-> SubSeq(h, 1, Len(h) - 1),
          redoStack |-> <<m>> \o r]

UndoResult(m, h, r) ==
  IF Len(h) = 0
    THEN [measurements |-> m, history |-> h, redoStack |-> r]
    ELSE [measurements |-> h[Len(h)],
          history |-> SubSeq(h, 1, Len(h) - 1),
          redoStack |-> <<m>> \o r]

HandleUndo ==
  LET res == UndoResult(measurements, history, redoStack) IN
  /\ file # NoFile
  /\ measurements' = res.measurements
  /\ history' = res.history
  /\ redoStack' = res.redoStack
  /\ UNCHANGED <<file, numPages, scale, scaleFactor, isDragging, dragStart,
                 dragEnd, dragPage, now, gesture, selected>>
  /\ IF Len(history) = 0
       THEN /\ lastOp' = Op("undoEmpty", NoGesture, Nothing)
            /\ trail' = NoTrail
            /\ undone' = undone
       ELSE /\ lastOp' = Op("undo", NoGesture, Nothing)
            /\ trail' = IF trail.stage = 1 THEN [trail EXCEPT !.stage = 2] ELSE NoTrail
            /\ undone' = Append(undone, measurements)

\* mutant of RedoResult: the store being left is not pushed on history
RedoResultSkipsHistory(m, h, r) ==
  IF Len(r) = 0
    THEN [measurements |-> m, history |-> h, redoStack |-> r]
    ELSE [measurements |-> r[1],
          history |-> h,
          redoStack |-> SubSeq(r, 2, Len(r))]

RedoResult(m, h, r) ==
  IF Len(r) = 0
    THEN [measurements |-> m, history |-> h, redoStack |-> r]
    ELSE [measurements |-> r[1],
          history |-> Append(h, m),
          redoStack |-> SubSeq(r, 2, Len(r))]

\* the queue of undone snapshots once `installed` has been re-applied
Requeue(q, installed) == SelectSeq(q, LAMBDA s : s # installed)

HandleRedo ==
  LET res == RedoResult(measurements, history, redoStack) IN
  /\ file # NoFile
  /\ measurements' = res.measurements
  /\ history' = res.history
  /\ redoStack' = res.redoStack
  /\ UNCHANGED <<file, numPages, scale, scaleFactor, isDragging, dragStart,
                 dragEnd, dragPage, now, gesture, selected>>
  /\ IF Len(redoStack) = 0
       THEN /\ lastOp' = Op("redoEmpty", NoGesture, Nothing)
            /\ trail' = NoTrail
            /\ undone' = undone
       ELSE /\ lastOp' = Op("redo", NoGesture, Nothing)
            /\ trail' = IF trail.stage = 2 THEN [trail EXCEPT !.stage = 3] ELSE NoTrail
            /\ undone' = Requeue(undone, res.measurements)

----------------------------------------------------------------------------
(* The collaborators that hold a state setter *)

\* DrawingCallibrationScale: the user picks a scale identifier of the registry
SelectScale(id) ==
  /\ scaleFactor' = Some(drawingCalibrations[id])
  /\ UNCHANGED <<file, numPages, scale, measurements, history, redoStack,
                 isDragging, dragStart, dragEnd, dragPage, now, undone, gesture>>
  /\ lastOp' = Op("selectScale", NoGesture, Nothing)
  /\ trail' = NoTrail
  /\ selected' = TRUE

\* DrawingCallibrationScale: the user clears the calibration
ClearScale ==
  /\ scaleFactor' = None
  /\ UNCHANGED <<file, numPages, scale, measurements, history, redoStack,
                 isDragging, dragStart, dragEnd, dragPage, now, undone, gesture,
                 selected>>
  /\ lastOp' = Op("clearScale", NoGesture, Nothing)
  /\ trail' = NoTrail

\* TakeoffControlMenu: zoom in or out
SetScale(zoom) ==
  /\ file # NoFile
  /\ scale' = zoom
  /\ UNCHANGED <<file, numPages, scaleFactor, measurements, history, redoStack,
                 isDragging, dragStart, dragEnd, dragPage, now, undone, gesture,
                 selected>>
  /\ lastOp' = Op("setScale", NoGesture, Nothing)
  /\ trail' = NoTrail

----------------------------------------------------------------------------
(* renderOverlay: the elements drawn over a page, in document order.  The
   line under the pointer (hoveredId) is an input of the projection. *)

HoverIds == {None} \cup {Some(t) : t \in 0..MaxClock}

\* a stored coordinate on the screen at `zoom`
Scaled(v, zoom) == (v * zoom) \div 4

\* (pixelDistance * (scaleFactor || 1)).toFixed(2), in hundredths
Label(m) ==
  ((m.pixelDistance * (IF IsSome(scaleFactor) THEN Val(scaleFactor) ELSE 10000))
     + 50) \div 100

MeasurementLine(m, hovered) ==
  [kind |-> "measurement", key |-> Some(m.id),
   x1 |-> Scaled(m.points[1].x, scale), y1 |-> Scaled(m.points[1].y, scale),
   x2 |-> Scaled(m.points[2].x, scale), y2 |-> Scaled(m.points[2].y, scale),
   label |-> IF hovered = Some(m.id) THEN Some(Label(m)) ELSE None]

PreviewLine ==
  [kind |-> "preview", key |-> None,
   x1 |-> Scaled(Val(dragStart).x, scale), y1 |-> Scaled(Val(dragStart).y, scale),
   x2 |-> Scaled(Val(dragEnd).x, scale), y2 |-> Scaled(Val(dragEnd).y, scale),
   label |-> None]

\* mutant of renderOverlay: the preview is drawn on every page
renderOverlayPreviewEverywhere(pageNumber, hovered) ==
  LET OnThisPage(m) == /\ m.points[1].page = pageNumber
                       /\ m.points[2].page = pageNumber
      pageMeasurements == SelectSeq(measurements, OnThisPage)
      lines == [k \in 1..Len(pageMeasurements) |->
                  MeasurementLine(pageMeasurements[k], hovered)]
  IN IF isDragging /\ IsSome(dragStart) /\ IsSome(dragEnd)
       THEN Append(lines, PreviewLine)
       ELSE lines

renderOverlay(pageNumber, hovered) ==
  LET OnThisPage(m) == /\ m.points[1].page = pageNumber
                       /\ m.points[2].page = pageNumber
      pageMeasurements == SelectSeq(measurements, OnThisPage)
      lines == [k \in 1..Len(pageMeasurements) |->
                  MeasurementLine(pageMeasurements[k], hovered)]
  IN IF /\ isDragging
        /\ IsSome(dragStart)
        /\ IsSome(dragEnd)
        /\ dragPage = Some(pageNumber)
       THEN Append(lines, PreviewLine)
       ELSE lines

----------------------------------------------------------------------------
(* Specifications.  Each takes every step of the handlers it lists; they differ
   in the inputs the environment offers. *)

\* the handlers of the measurement core, with presses on the pages in pressPages
\* and at most cap measurements in the store
Core(pressPages, cap) ==
  \/ \E f \in {UploadedFile, NoFile} : OnFileChange(f)
  \/ \E n \in 1..MaxPages : OnDocumentLoadSuccess(n)
  \/ \E o \in PressOffsets, p \in pressPages : HandleMouseDown(o, p)
  \/ \E o \in MoveOffsets, p \in 1..MaxPages : HandleMouseMove(o, p)
  \/ \E t \in 0..MaxClock : HandleMouseUp(t, cap)
  \/ HandleUndo
  \/ HandleRedo

\* presses and moves on every page
Next == Core(1..MaxPages, MaxStoreWide)

Spec == Init /\ [][Next]_vars

\* presses on the first page only, a deeper store
NextHistory == Core({1}, MaxMeasurements)

SpecHistory == Init /\ [][NextHistory]_vars

\* as SpecHistory, with the calibration selector
NextCalibration ==
  \/ Core({1}, MaxMeasurements)
  \/ \E id \in CalibrationIds : SelectScale(id)
  \/ ClearScale

SpecCalibration == Init /\ [][NextCalibration]_vars

\* as SpecHistory, with the zoom control
NextZoom ==
  \/ Core({1}, MaxMeasurements)
  \/ \E z \in ZoomLevels : SetScale(z)

SpecZoom == Init /\ [][NextZoom]_vars

\* one document, presses on every page, a store of up to MaxMeasurements,
\* no undo and no redo
NextOverlay ==
  \/ \E n \in 1..MaxPages : OnDocumentLoadSuccess(n)
  \/ \E o \in PressOffsets, p \in 1..MaxPages : HandleMouseDown(o, p)
  \/ \E o \in MoveOffsets, p \in 1..MaxPages : HandleMouseMove(o, p)
  \/ \E t \in 0..MaxClock : HandleMouseUp(t, MaxMeasurements)

SpecOverlay == Init /\ [][NextOverlay]_vars

\* the drag session next to everything that is not a pointer event: presses on
\* page 1, a store of up to MaxStoreWide, and the scale selector
NextDragSession ==
  \/ Core({1}, MaxStoreWide)
  \/ \E id \in CalibrationIds : SelectScale(id)
  \/ ClearScale

SpecDragSession == Init /\ [][NextDragSession]_vars

\* the zoom control handing setScale any number, a non-positive one included:
\* setScale is the plain useState setter and the handlers divide by whatever
\* number it stored
UncheckedZooms == ZoomLevels \cup {-InitialScale}

NextZoomUnchecked ==
  \/ Core({1}, MaxStoreWide)
  \/ \E z \in UncheckedZooms : SetScale(z)

SpecZoomUnchecked == Init /\ [][NextZoomUnchecked]_vars

----------------------------------------------------------------------------
(* Properties *)

\* every snapshot the component holds: the store and both stacks
Snapshots ==
  {measurements} \cup {history[i] : i \in 1..Len(history)}
                 \cup {redoStack[i] : i \in 1..Len(redoStack)}

\* C1: an undo right after a commit leaves the store equal, element for element
\* and in order, to the store before the commit; a redo right after that undo
\* leaves it equal to the store after the commit
UndoRedoInverse ==
  /\ trail.stage = 2 => measurements = trail.pre
  /\ trail.stage = 3 => measurements = trail.post

\* commit on a non-empty store, undo, redo
UndoRedoInverseWitness ==
  /\ trail.stage = 3
  /\ lastOp.op = "redo"
  /\ trail.pre # <<>>
  /\ Len(trail.post) = Len(trail.pre) + 1

\* C2: right after a commit the redo stack is empty, whatever it held before
RedoEmptyAfterCommit == lastOp.op = "commit" => redoStack = <<>>

\* a commit that found two snapshots on the redo stack (two undos before it)
RedoEmptyAfterCommitWitness ==
  /\ lastOp.op = "commit"
  /\ lastOp.before[3] >= 2
  /\ redoStack = <<>>

\* C3 as claimed: with two or more snapshots queued, redo installs the one that
\* was queued first (the store undone first)
RedoPopsOldest ==
  [][(lastOp'.op = "redo" /\ Len(redoStack) >= 2)
       => (Len(undone) >= 2 /\ measurements' = undone[1])]_vars

\* C3 as amended: with two or more snapshots queued, redo installs the one that
\* was queued last (the store undone most recently), and leaves the older queued
RedoPopsNewest ==
  [][(lastOp'.op = "redo" /\ Len(redoStack) >= 2)
       => /\ Len(undone) >= 2
          /\ measurements' = undone[Len(undone)]
          /\ undone' = SubSeq(undone, 1, Len(undone) - 1)]_vars

\* a redo taken with two snapshots queued: one is still queued
RedoPopsNewestWitness ==
  /\ lastOp.op = "redo"
  /\ Len(redoStack) >= 1
  /\ Len(undone) = Len(redoStack)

\* C4: a file change leaves the store, both stacks and the calibration empty
FileChangeResets ==
  lastOp.op = "fileChange" =>
    /\ measurements = <<>>
    /\ history = <<>>
    /\ redoStack = <<>>
    /\ scaleFactor = None

\* a file change that found a measurement, an undo snapshot, a redo snapshot and
\* a calibration factor
FileChangeResetsWitness ==
  /\ lastOp.op = "fileChange"
  /\ lastOp.before[1] > 0
  /\ lastOp.before[2] > 0
  /\ lastOp.before[3] > 0
  /\ lastOp.before[4] = 1
  /\ measurements = <<>>

\* C5: in every snapshot both points of every measurement are on one page; the
\* recorded start and end are on the page of the press that began the drag, and
\* a commit stores that page
SamePage ==
  /\ \A s \in Snapshots : \A i \in 1..Len(s) :
       s[i].points[1].page = s[i].points[2].page
  /\ IsSome(dragStart) => Val(dragStart).page = gesture.page
  /\ IsSome(dragEnd) => Val(dragEnd).page = gesture.page
  /\ lastOp.op = "commit" =>
       /\ lastOp.press.page \in 1..MaxPages
       /\ measurements[Len(measurements)].points[1].page = lastOp.press.page
       /\ measurements[Len(measurements)].points[2].page = lastOp.press.page

\* a commit of a drag that recorded a move from another page than its press
SamePageWitness ==
  /\ lastOp.op = "commit"
  /\ lastOp.press.crossed
  /\ lastOp.press.page = 2

\* C6: the measurements of the store have pairwise distinct ids
DistinctIds ==
  \A i, j \in 1..Len(measurements) :
    i # j => measurements[i].id # measurements[j].id

\* C7: a release with no end point recorded, or with no drag active, leaves the
\* store and both stacks as they were
ReleaseWithoutEndIsNoOp ==
  [][(lastOp'.op \in {"mouseUpAbort", "commit"} /\ (~isDragging \/ dragEnd = None))
       => UNCHANGED <<measurements, history, redoStack>>]_vars

\* a press released with no move in between, over a non-empty store
ReleaseWithoutEndWitness ==
  /\ lastOp.op = "mouseUpAbort"
  /\ IsSome(dragStart)
  /\ dragEnd = None
  /\ measurements # <<>>
  /\ history # <<>>

\* C8: undo on an empty undo stack and redo on an empty redo stack change
\* nothing of the component's state
EmptyUndoRedoIsNoOp ==
  [][(\/ lastOp'.op \in {"undo", "undoEmpty"} /\ history = <<>>
      \/ lastOp'.op \in {"redo", "redoEmpty"} /\ redoStack = <<>>)
       => UNCHANGED progVars]_vars

\* an undo on an empty undo stack while a snapshot waits on the redo stack and a
\* drag is active
EmptyUndoWitness ==
  /\ lastOp.op = "undoEmpty"
  /\ history = <<>>
  /\ redoStack # <<>>
  /\ isDragging

\* the stored distance of every measurement is the one computed from its points
StoredDistances ==
  \A s \in Snapshots : \A i \in 1..Len(s) :
    s[i].pixelDistance = PixelDistance(s[i].points[1], s[i].points[2])

\* C9: selecting or clearing the calibration leaves the store and both stacks
\* unchanged, the stored distances stay the committed ones, and undo and redo
\* leave the calibration unchanged
CalibrationIndependent ==
  /\ []StoredDistances
  /\ [][/\ lastOp'.op \in {"selectScale", "clearScale"}
             => UNCHANGED <<measurements, history, redoStack>>
        /\ lastOp'.op \in {"undo", "undoEmpty", "redo", "redoEmpty"}
             => UNCHANGED scaleFactor]_vars

\* another scale selected over a store, an undo stack and a redo stack in use
CalibrationIndependentWitness ==
  /\ lastOp.op = "selectScale"
  /\ scaleFactor = Some(drawingCalibrations["100"])
  /\ measurements # <<>>
  /\ measurements[1].pixelDistance > 0
  /\ history # <<>>
  /\ redoStack # <<>>

\* C10 as claimed: the calibration is set only if a scale was selected since
\* construction or the last file change
CalibratedOnlyIfSelected == IsSome(scaleFactor) => selected

\* C10 as amended: the calibration is set only if a scale was selected since
\* construction or the last file change, or no file was chosen yet and it is
\* the default scale the component starts with; it is always a registry value
CalibratedOnlyIfSelectedOrDefault ==
  IsSome(scaleFactor) =>
    /\ \E id \in CalibrationIds : Val(scaleFactor) = drawingCalibrations[id]
    /\ \/ selected
       \/ /\ file = DefaultFile
          /\ scaleFactor = Some(drawingCalibrations[defaultCalibrationValue])

\* a scale selected after a file change
CalibratedAfterFileChangeWitness ==
  /\ file = UploadedFile
  /\ selected
  /\ IsSome(scaleFactor)
  /\ lastOp.op = "selectScale"

\* C11: the page of every point of every stored measurement is a page of the
\* loaded document (between 1 and numPages), also when the file changes
\* between the press and the release of a drag
PagesWithinDocument ==
  \A i \in 1..Len(measurements) : \A k \in 1..2 :
    /\ IsSome(numPages)
    /\ measurements[i].points[k].page \in 1..Val(numPages)

\* C12: whenever no drag is active, the recorded start point and end point
\* are both absent (a gesture that ends without committing discards them)
IdleHasNoPoints == ~isDragging => dragStart = None /\ dragEnd = None

\* C13: a press or a move received while the zoom scale is not greater than 0
\* fails and records no start point and no end point
NoPointFromNonPositiveZoom ==
  [][(/\ scale <= 0
      /\ lastOp'.op \in {"mouseDown", "mouseDownDuringDrag",
                          "mouseMove", "mouseMoveOtherPage"})
       => UNCHANGED <<dragStart, dragEnd>>]_vars

\* C14: a commit appends exactly one measurement at the end of the store and
\* keeps the earlier ones as they were and in their order; its first point is
\* the press point and its second the point of the last move before the
\* release; it pushes exactly one snapshot, the store as it was before
CommitAppendsOne ==
  [][lastOp'.op = "commit" =>
       /\ Len(measurements') = Len(measurements) + 1
       /\ SubSeq(measurements', 1, Len(measurements)) = measurements
       /\ measurements'[Len(measurements')].points
            = <<Val(gesture.start), Val(gesture.last)>>
       /\ history' = Append(history, measurements)]_vars

\* a second measurement committed, from a press point to a different point
CommitAppendsOneWitness ==
  /\ lastOp.op = "commit"
  /\ Len(measurements) = 2
  /\ Len(history) = 2
  /\ measurements[2].points[1] = Val(lastOp.press.start)
  /\ measurements[2].points[2] = Val(lastOp.press.last)
  /\ measurements[2].points[1] # measurements[2].points[2]

\* C15: a press received while a drag is active creates no measurement and
\* leaves the store and both stacks unchanged; it replaces the start point and
\* the page by those of the new press and clears the end point, so the points
\* a following release finds recorded are those of the new gesture only
PressDuringDragRestarts ==
  /\ [][lastOp'.op = "mouseDownDuringDrag" =>
          /\ UNCHANGED <<measurements, history, redoStack>>
          /\ dragStart' = gesture'.start
          /\ dragPage' = Some(gesture'.page)
          /\ dragEnd' = None
          /\ isDragging']_vars
  /\ []((isDragging /\ IsSome(dragStart) /\ IsSome(dragEnd)) =>
          /\ dragStart = gesture.start
          /\ dragEnd = gesture.last
          /\ Val(dragEnd).page = Val(dragStart).page)

\* a press on page 2 during an active drag, over a store in use
PressDuringDragWitness ==
  /\ lastOp.op = "mouseDownDuringDrag"
  /\ lastOp.press.page = 2
  /\ dragPage = Some(2)
  /\ dragEnd = None
  /\ measurements # <<>>

\* C16: a release of a drag whose recorded end point equals its start point
\* (a move was received, the pointer is back at the press position) commits
\* exactly one measurement, with pixelDistance 0
ZeroLengthCommits ==
  [][(/\ lastOp'.op \in {"commit", "mouseUpAbort"}
      /\ isDragging
      /\ IsSome(dragStart)
      /\ IsSome(dragEnd)
      /\ dragEnd = dragStart)
       => /\ lastOp'.op = "commit"
          /\ measurements' = Append(measurements, measurements'[Len(measurements')])
          /\ measurements'[Len(measurements')].points
               = <<Val(dragStart), Val(dragStart)>>
          /\ measurements'[Len(measurements')].pixelDistance = 0]_vars

\* a zero-length measurement committed after one of positive length
ZeroLengthCommitsWitness ==
  /\ lastOp.op = "commit"
  /\ IsSome(lastOp.press.last)
  /\ lastOp.press.last = lastOp.press.start
  /\ Len(measurements) = 2
  /\ measurements[1].pixelDistance > 0
  /\ measurements[2].pixelDistance = 0

\* the positions in the store of the measurements with both points on page p
StoredOn(p) ==
  {i \in 1..Len(measurements) :
     measurements[i].points[1].page = p /\ measurements[i].points[2].page = p}

\* C17: for every page p the overlay holds one line for exactly the stored
\* measurements with both points on p, in the order of the store, followed by
\* one preview line if and only if a drag is active on p with a start and an
\* end recorded; it is empty for a page with no measurement and no active drag
OverlayProjection ==
  \A p \in 1..MaxPages : \A hovered \in HoverIds :
    LET out == renderOverlay(p, hovered)
        n == Cardinality(StoredOn(p))
        preview == /\ isDragging
                   /\ dragPage = Some(p)
                   /\ IsSome(dragStart)
                   /\ IsSome(dragEnd)
    IN /\ Len(out) = n + (IF preview THEN 1 ELSE 0)
       /\ \A k \in 1..n :
            \E i \in StoredOn(p) :
              /\ Cardinality({j \in StoredOn(p) : j < i}) = k - 1
              /\ out[k].kind = "measurement"
              /\ out[k].key = Some(measurements[i].id)
              /\ <<out[k].x1, out[k].y1>>
                   = <<Scaled(measurements[i].points[1].x, scale),
                       Scaled(measurements[i].points[1].y, scale)>>
              /\ <<out[k].x2, out[k].y2>>
                   = <<Scaled(measurements[i].points[2].x, scale),
                       Scaled(measurements[i].points[2].y, scale)>>
       /\ preview => out[n + 1].kind = "preview"
       /\ (n = 0 /\ ~(isDragging /\ dragPage = Some(p))) => out = <<>>

\* a store with measurements of different lengths on page 1 and on page 2,
\* and a drag with an end point active on page 2
OverlayProjectionWitness ==
  /\ Len(measurements) = 2
  /\ StoredOn(1) = {1}
  /\ StoredOn(2) = {2}
  /\ measurements[1].pixelDistance # measurements[2].pixelDistance
  /\ isDragging
  /\ dragPage = Some(2)
  /\ IsSome(dragEnd)
  /\ Len(renderOverlay(2, None)) = 2
  /\ Len(renderOverlay(1, None)) = 1

\* the store left by handleUndo repeated until history is empty
RECURSIVE UndoAll(_, _, _)
UndoAll(m, h, r) ==
  IF Len(h) = 0
    THEN m
    ELSE LET res == UndoResult(m, h, r)
         IN UndoAll(res.measurements, res.history, res.redoStack)

\* C18: the undo stack is as deep as the store is long, and its k-th snapshot
\* from the bottom is the first k-1 measurements of the store; so the store is
\* empty whenever the undo stack is, and undo repeated from any state ends
\* with an empty store
HistoryMirrorsStore ==
  /\ Len(history) = Len(measurements)
  /\ \A k \in 1..Len(history) : history[k] = SubSeq(measurements, 1, k - 1)
  /\ history = <<>> => measurements = <<>>
  /\ UndoAll(measurements, history, redoStack) = <<>>

\* a store of two measurements rebuilt by undo and redo, with a redo pending
HistoryMirrorsStoreWitness ==
  /\ lastOp.op = "redo"
  /\ Len(measurements) = 1
  /\ Len(history) = 1
  /\ Len(redoStack) = 1
  /\ Len(redoStack[1]) = 2

\* C19: whenever an end point is recorded, a drag is active, a start point is
\* recorded, and the end point is the one of the last move received since the
\* latest press; a commit pairs the start point of the latest press with that
\* end point; undo, redo, calibration changes and file changes leave the drag
\* session as it is
DragSessionConsistent ==
  /\ [](IsSome(dragEnd) =>
          /\ isDragging
          /\ IsSome(dragStart)
          /\ dragStart = gesture.start
          /\ dragEnd = gesture.last)
  /\ [][/\ lastOp'.op = "commit" =>
             /\ IsSome(gesture.last)
             /\ measurements'[Len(measurements')].points[1] = Val(gesture.start)
             /\ measurements'[Len(measurements')].points[2] = Val(gesture.last)
        /\ lastOp'.op \in {"undo", "undoEmpty", "redo", "redoEmpty", "selectScale",
                            "clearScale", "fileChange", "loadSuccess"}
             => UNCHANGED dragVars]_vars

\* a file chosen while a drag with an end point is active
DragSessionConsistentWitness ==
  /\ lastOp.op = "fileChange"
  /\ isDragging
  /\ IsSome(dragEnd)
  /\ dragEnd = gesture.last
  /\ dragEnd # dragStart

====
